---- MODULE Spec2Model ----
(***************************************************************************)
(* Athena V3: the CAP intake route (src/app.py) and the offline integrity  *)
(* validator (src/scripts/local_integrity_check.py).                       *)
(*                                                                         *)
(* Spec       one POST /cap request per step, under every environment      *)
(*            (shared secret, bridge URL, loaded CAP schema).              *)
(* AuditSpec  sequential runs of the validator's main(), one statement     *)
(*            group per step.                                              *)
(***************************************************************************)
EXTENDS Integers, Sequences, FiniteSets, TLC

VARIABLES
    \* ---- src/app.py -----------------------------------------------------
    secret,        \* os.getenv("ATHENA_SHARED_SECRET", "")
    bridge_url,    \* os.getenv("BRIDGE_URL", "")
    CAP_SCHEMA,    \* the schema document loaded at import
    request,       \* the last POST /cap request: body and signature header
    downstream,    \* what the bridge did with the outbound POST of that request
    steps,         \* the calls receive_cap made for that request, in order
    response,      \* the response to that request
    outbound,      \* outbound POSTs made for that request
    uuid_calls,    \* calls of uuid.uuid4() so far
    trace_id,      \* the trace_id receive_cap made for that request
    response_trace_id,  \* the trace_id in the response to that request
    sent_trace_ids,     \* the trace_ids in the responses sent before
    \* ---- src/scripts/local_integrity_check.py ---------------------------
    manifestFile,  \* content of MANIFEST_PATH
    schemaFile,    \* content of SCHEMA_PATH
    schemaTmp,     \* content of SCHEMA_PATH.with_suffix(".tmp")
    capFile,       \* content of CAP_FILE
    logs,          \* ARCHIVE_DIR: log file name (tstamp) -> record and mtime
    now,           \* the UTC clock, in seconds
    pc,            \* per run: position in main()
    loc,           \* per run: the local variables of main()
    hist,          \* per run: what the run has done so far
    prevRun        \* hist of the run that ended last

appVars   == <<secret, bridge_url, CAP_SCHEMA, request, downstream, steps, response, outbound,
               uuid_calls, trace_id, response_trace_id, sent_trace_ids>>
auditVars == <<manifestFile, schemaFile, schemaTmp, capFile, logs, now, pc, loc, hist, prevRun>>
vars      == <<appVars, auditVars>>

\* ---------------------------------------------------------------------------
\* Bounds
\* ---------------------------------------------------------------------------
MaxDefects == 2    \* fields of a request body that are not a non-empty string / present
MaxUuids   == 4    \* calls of uuid.uuid4()

\* ---------------------------------------------------------------------------
\* src/app.py
\* ---------------------------------------------------------------------------
StrFields == {"cap_id", "timestamp", "domain", "context_mode", "advisor_of_record"}
AnyFields == {"outputs", "cap_extensions", "integrity"}

\* A JSON value of a str field: absent key, "", a non-empty string, null.
StrKinds == {"absent", "empty", "str", "null"}
\* A JSON value of an Any field: absent key, or some value.
AnyKinds == {"absent", "present"}

Defects(d) == Cardinality({f \in StrFields : d[f] # "str"}) + Cardinality({f \in AnyFields : d[f] # "present"})

Objects ==
    {d \in [StrFields \cup AnyFields -> StrKinds \cup AnyKinds] :
        /\ \A f \in StrFields : d[f] \in StrKinds
        /\ \A f \in AnyFields : d[f] \in AnyKinds
        /\ Defects(d) <= MaxDefects}

\* Request bodies: bytes that are no JSON, a JSON array, or a JSON object.
NotJson  == [json |-> "invalid"]
JsonList == [json |-> "list"]
Bodies   == {NotJson, JsonList} \cup {[json |-> "object", data |-> d] : d \in Objects}

\* ATHENA_SHARED_SECRET: unset, or a key; Keys adds a key the service does not hold.
Secrets == {"", "k1"}
Keys    == Secrets \cup {"k2"}

\* hmac.new(secret.encode(), body, hashlib.sha256).hexdigest(): one digest per
\* (key, message) pair; the empty key is a legal HMAC key.
Hmac(key, body) == [kind |-> "hmac-sha256", key |-> key, body |-> body]
NoHeader    == [kind |-> "absent"]
EmptyHeader == [kind |-> "empty"]
JunkHeader  == [kind |-> "deadbeef"]

\* X-Athena-Signature: no header, an empty header, a hex string that is no
\* digest of anything, the digest of this or of another body under some key.
Signatures(body) == {NoHeader, EmptyHeader, JunkHeader} \cup {Hmac(k, b) : k \in Keys, b \in {body, NotJson}}

\* Schema documents the service may have loaded (any JSON Schema is legal):
\* {} accepts every instance; one requires the five strings to be non-empty;
\* one requires a property CAPPayload does not know.
Schemas == {"permissive", "nonempty", "needs_extra"}

BridgeUrls == {"", "https://bridge"}

\* What the bridge does with POST <bridge_url>/cap: a transport exception, or
\* a response with a status and a body that is JSON or not.
Statuses    == {200, 201, 404, 500}
Downstreams == {[kind |-> "exception"]} \cup
               {[kind |-> "response", status |-> s, json |-> j] : s \in Statuses, j \in BOOLEAN}
NoCall      == [kind |-> "none"]

\* verify_signature without the test of the secret
verify_signature_nosecretcheck(sec, body, received_sig) ==
    IF received_sig \in {NoHeader, EmptyHeader} THEN FALSE
    ELSE Hmac(sec, body) = received_sig

verify_signature(sec, body, received_sig) ==
    IF sec = "" \/ received_sig \in {NoHeader, EmptyHeader} THEN FALSE
    ELSE Hmac(sec, body) = received_sig

\* CAPPayload(**data): pydantic raises unless every declared field is there
\* and the five str fields hold strings ("" is a string).
\* CAPPayload without the integrity field
CAPPayload_forgets_integrity(data) ==
    /\ \A f \in StrFields : data[f] \in {"str", "empty"}
    /\ \A f \in AnyFields \ {"integrity"} : data[f] # "absent"

CAPPayload(data) ==
    /\ \A f \in StrFields : data[f] \in {"str", "empty"}
    /\ \A f \in AnyFields : data[f] # "absent"

\* jsonschema.validate(instance=data, schema=CAP_SCHEMA): TRUE when it returns,
\* FALSE when it raises ValidationError.
validate(data, schema) ==
    CASE schema = "permissive"  -> TRUE
      [] schema = "nonempty"    -> \A f \in StrFields : data[f] # "empty"
      [] schema = "needs_extra" -> FALSE

Raised == [relay |-> "raised"]

\* relay_cap_payload with the POST repeated after a failure
relay_posts_retries(url, down) ==
    IF url = "" THEN 0
    ELSE IF down.kind = "exception" THEN 2
    ELSE IF down.status = 200 THEN 1 ELSE 2

\* relay_cap_payload: the number of requests.post calls it makes
relay_posts(url, down) == IF url = "" THEN 0 ELSE 1

\* relay_cap_payload without its try/except
relay_cap_payload_noexcept(url, down) ==
    IF url = "" THEN [relay |-> "skipped", reason |-> "BRIDGE_URL not set"]
    ELSE IF down.kind = "exception" THEN Raised
    ELSE IF down.status = 200
         THEN IF down.json THEN [relay |-> "success", bridge_status |-> "json"]
              ELSE Raised
         ELSE [relay |-> "failed", code |-> down.status, body |-> down.json]

\* relay_cap_payload(data, trace_id): the outcome dict.  response.json() sits
\* inside the try block, so a 200 whose body is no JSON ends in the handler.
relay_cap_payload(url, down) ==
    IF url = "" THEN [relay |-> "skipped", reason |-> "BRIDGE_URL not set"]
    ELSE IF down.kind = "exception" THEN [relay |-> "error", message |-> "transport"]
    ELSE IF down.status = 200
         THEN IF down.json THEN [relay |-> "success", bridge_status |-> "json"]
              ELSE [relay |-> "error", message |-> "json"]
         ELSE [relay |-> "failed", code |-> down.status, body |-> down.json]

\* raise HTTPException(status_code, detail), rendered by http_exception_handler
http_exception_handler(status_code, detail) ==
    [code |-> status_code, body |-> [error |-> TRUE, code |-> status_code, message |-> detail]]

Ok(relay_result) ==
    [code |-> 200, body |-> [status |-> "CAP validated", relay_result |-> relay_result]]

Result(st, resp, n) == [steps |-> st, response |-> resp, outbound |-> n]

Unauthorized == http_exception_handler(401, "Invalid or missing signature header.")
Malformed    == http_exception_handler(400, "Invalid CAP payload")
Violation    == http_exception_handler(422, "CAP schema validation error")

\* receive_cap with the relay call moved before the payload checks
receive_cap_relay_first(body, sig, down) ==
    IF ~verify_signature(secret, body, sig)
    THEN Result(<<"verify_signature">>, Unauthorized, 0)
    ELSE IF body.json = "invalid"
    THEN Result(<<"verify_signature", "json.loads">>, Malformed, 0)
    ELSE IF body.json # "object"
    THEN Result(<<"verify_signature", "json.loads", "data.get">>, Malformed, 0)
    ELSE LET r == relay_cap_payload(bridge_url, down)
             n == relay_posts(bridge_url, down)
         IN  IF ~CAPPayload(body.data)
             THEN Result(<<"verify_signature", "json.loads", "data.get", "relay_cap_payload", "CAPPayload">>, Malformed, n)
             ELSE IF ~validate(body.data, CAP_SCHEMA)
             THEN Result(<<"verify_signature", "json.loads", "data.get", "relay_cap_payload", "CAPPayload", "validate">>, Violation, n)
             ELSE Result(<<"verify_signature", "json.loads", "data.get", "relay_cap_payload", "CAPPayload", "validate">>, Ok(r), n)

\* receive_cap: the calls made, the response and the number of outbound POSTs.
receive_cap(body, sig, down) ==
    IF ~verify_signature(secret, body, sig)
    THEN Result(<<"verify_signature">>, Unauthorized, 0)
    ELSE IF body.json = "invalid"
    THEN Result(<<"verify_signature", "json.loads">>, Malformed, 0)
    ELSE IF body.json # "object"
    THEN Result(<<"verify_signature", "json.loads", "data.get">>, Malformed, 0)
    ELSE IF ~CAPPayload(body.data)
    THEN Result(<<"verify_signature", "json.loads", "data.get", "CAPPayload">>, Malformed, 0)
    ELSE IF ~validate(body.data, CAP_SCHEMA)
    THEN Result(<<"verify_signature", "json.loads", "data.get", "CAPPayload", "validate">>, Violation, 0)
    ELSE LET r == relay_cap_payload(bridge_url, down)
             st == <<"verify_signature", "json.loads", "data.get", "CAPPayload", "validate", "relay_cap_payload">>
             n == relay_posts(bridge_url, down)
         IN  IF r = Raised THEN Result(st, Malformed, n) ELSE Result(st, Ok(r), n)

NoRequest == [body |-> NotJson, sig |-> NoHeader]

\* str(uuid.uuid4()): the value of the call after n calls, never seen before
uuid4(n) == n + 1

\* the trace_id of the response: the route returns its own, the exception
\* handler makes another one
ResponseTraceId(resp, tid, calls) == IF resp.code = 200 THEN tid ELSE uuid4(calls + 1)

AppInit ==
    /\ secret \in Secrets
    /\ bridge_url \in BridgeUrls
    /\ CAP_SCHEMA \in Schemas
    /\ request = NoRequest
    /\ downstream = NoCall
    /\ steps = <<>>
    /\ response = [code |-> 0]
    /\ outbound = 0
    /\ uuid_calls = 0
    /\ trace_id = 0
    /\ response_trace_id = 0
    /\ sent_trace_ids = {}

\* The bridge acts only on the requests that reach it.
DownstreamsFor(body, sig) ==
    IF receive_cap(body, sig, [kind |-> "exception"]).outbound > 0 THEN Downstreams ELSE {NoCall}

\* POST /cap: one request, from the read of the body to the response
ReceiveCap ==
    /\ steps = <<>>
    /\ uuid_calls + 2 <= MaxUuids
    /\ \E body \in Bodies :
         \E sig \in Signatures(body) :
           \E down \in DownstreamsFor(body, sig) :
             LET r == receive_cap(body, sig, down) IN
               /\ request' = [body |-> body, sig |-> sig]
               /\ steps' = r.steps
               /\ response' = r.response
               /\ outbound' = r.outbound
               /\ downstream' = down
               /\ trace_id' = uuid4(uuid_calls)
               /\ response_trace_id' = ResponseTraceId(r.response, uuid4(uuid_calls), uuid_calls)
               /\ uuid_calls' = IF r.response.code = 200 THEN uuid_calls + 1 ELSE uuid_calls + 2
               /\ UNCHANGED <<secret, bridge_url, CAP_SCHEMA, sent_trace_ids, auditVars>>

\* The response is sent; nothing of the request stays in the service.
Respond ==
    /\ steps # <<>>
    /\ request' = NoRequest
    /\ downstream' = NoCall
    /\ steps' = <<>>
    /\ response' = [code |-> 0]
    /\ outbound' = 0
    /\ trace_id' = 0
    /\ response_trace_id' = 0
    /\ sent_trace_ids' = sent_trace_ids \cup {response_trace_id}
    /\ UNCHANGED <<secret, bridge_url, CAP_SCHEMA, uuid_calls, auditVars>>

\* ---------------------------------------------------------------------------
\* src/scripts/local_integrity_check.py
\* ---------------------------------------------------------------------------
MaxTime == 1       \* seconds the clock may advance

LOG_RETAIN == 10

Procs    == {1, 2}     \* invocations of the script
SeqProcs == {1}        \* the invocation that is run again and again in AuditSpec
Times    == 0 .. MaxTime
\* names of the log files: the seconds of this model and those of earlier runs
LogNames == (0 - LOG_RETAIN) .. MaxTime

\* File contents.  canon is the v3.5 schema, stale an older schema (JSON too),
\* junk is text that is no JSON, binary is bytes that are no UTF-8.
Contents     == {"canon", "stale", "junk", "binary"}
Utf8Contents == {"canon", "stale", "junk"}
JsonContents == {"canon", "stale"}
Absent       == "absent"
\* a file that open(tmp, "w") has created or truncated and nothing was written to yet
Truncated    == "truncated"

\* loc[p].fd: the file the handle opened on the temporary path is now: none
\* (closed), still under the temporary path, renamed to the schema path, or
\* replaced there by a later rename (orphan).

\* hashlib.sha256(...).hexdigest(): lower-case hex, one digest per content.
hexdigest(c) ==
    CASE c = "canon"  -> "ab12"
      [] c = "stale"  -> "cd34"
      [] c = "junk"   -> "ef56"
      [] c = "binary" -> "9a78"
      [] c = "truncated" -> "e3b0"

\* sha256_file(p): "SHA256:" + hexdigest, as its ":"-separated parts.
sha256_file(c) == <<"SHA256", hexdigest(c)>>

\* r.read().decode("utf-8") and open(tmp, "w", encoding="utf-8").write(data)
decode(c)    == [str |-> c]
encode(text) == text.str

SCHEMA_NAME == "ATHENA_CAP_SCHEMA_v3_5.json"

Entry(n, parts)  == [name |-> n, hasSha |-> TRUE, sha256 |-> parts]
EntryNoSha(n)    == [name |-> n, hasSha |-> FALSE, sha256 |-> <<>>]
Manifest(v, hm, ms) == [json |-> "object", hasVersion |-> v, hasModules |-> hm, modules |-> ms]

\* Digests a manifest may pin: the canonical schema's (as hexdigest prints it
\* and in upper case), the older schema's, that of a file that is no JSON,
\* and one no content here has.
PinnedHex == {"ab12", "AB12", "cd34", "ef56", "ffff"}

\* Contents of MANIFEST_PATH
ManifestAbsent  == [json |-> "absent"]
ManifestInvalid == [json |-> "invalid"]
ManifestList    == [json |-> "list"]
Manifests ==
    {ManifestAbsent, ManifestInvalid, ManifestList,
     Manifest(TRUE, FALSE, <<>>),
     Manifest(TRUE, TRUE, <<>>),
     Manifest(TRUE, TRUE, <<Entry("other.json", <<"SHA256", "ab12">>)>>),
     Manifest(TRUE, TRUE, <<EntryNoSha(SCHEMA_NAME)>>),
     Manifest(TRUE, TRUE, <<Entry(SCHEMA_NAME, <<"ab12">>)>>),
     Manifest(TRUE, TRUE, <<Entry("other.json", <<"SHA256", "ffff">>), Entry(SCHEMA_NAME, <<"SHA256", "ab12">>),
                            Entry(SCHEMA_NAME, <<"SHA256", "cd34">>)>>)}
    \cup {Manifest(v, TRUE, <<Entry(SCHEMA_NAME, <<"SHA256", h>>)>>) : v \in BOOLEAN, h \in PinnedHex}

CapFiles == {Absent, "invalid_json", "valid", "violating"}

\* jsonschema.validate(instance=cap, schema=schema) in main(): the v3.5 schema
\* rejects the violating record, the older schema accepts both.
validate_cap(cap, schema) == schema = "stale" \/ cap = "valid"

\* What urlopen(CANONICAL["schema"]) does: fails, or serves some content.
Remote == {"unreachable"} \cup Contents

Unbound        == "unbound"
UnboundManifest == [json |-> "unbound"]
NoRecord       == [status |-> "none"]
NoFile         == [exists |-> FALSE]

NewLoc(t) ==
    [tstamp |-> t, status |-> "FAIL", verdict |-> "failed", manifest |-> UnboundManifest,
     canon_hash |-> Unbound, local_hash |-> Unbound, data |-> [str |-> Unbound], schema |-> Unbound,
     fd |-> "closed", listed |-> {}, old |-> {}]

\* what a run has done: its events in order, the fetches and rewrites it made,
\* what the canonical source served, the files as it found them, the record
\* it wrote, the log file it wrote it to, and its exit status
NewHist(s0, m0, c0) ==
    [trace |-> <<>>, fetches |-> 0, rewrites |-> 0, served |-> <<>>,
     schema0 |-> s0, manifest0 |-> m0, cap0 |-> c0, record |-> NoRecord, log_path |-> -1, exit |-> -1]
NoRun == NewHist(Absent, [json |-> "absent"], Absent)

Running(p) == pc[p] \notin {"idle", "exited", "crashed"}

AuditInit ==
    /\ manifestFile \in Manifests
    /\ schemaFile \in Contents \cup {Absent}
    /\ schemaTmp = Absent
    /\ capFile \in CapFiles
    /\ logs = [t \in LogNames |-> NoFile]
    /\ now = 0
    /\ pc = [p \in Procs |-> "idle"]
    /\ loc = [p \in Procs |-> NewLoc(0)]
    /\ hist = [p \in Procs |-> NoRun]
    /\ prevRun = NoRun

\* the except clauses of main(): the verdict each exception class gets
Handler(exc) ==
    CASE exc \in {"FileNotFoundError", "KeyError"} -> "missing"
      [] exc = "ValidationError"                   -> "validation"
      [] OTHER                                     -> "unhandled"

Event(p, e) == [hist[p] EXCEPT !.trace = Append(@, e)]

\* an exception raised in the try block at step e: handled, then finally
Raise(p, e, exc) ==
    /\ loc' = [loc EXCEPT ![p].verdict = Handler(exc)]
    /\ hist' = [hist EXCEPT ![p] = Event(p, e)]
    /\ pc' = [pc EXCEPT ![p] = "finally"]

Goto(p, e, next) ==
    /\ hist' = [hist EXCEPT ![p] = Event(p, e)]
    /\ pc' = [pc EXCEPT ![p] = next]

files == <<manifestFile, schemaFile, schemaTmp, capFile, logs>>

\* lines 56-59
Start(p) ==
    /\ ~Running(p)
    /\ pc' = [pc EXCEPT ![p] = "load_manifest"]
    /\ loc' = [loc EXCEPT ![p] = NewLoc(now)]
    /\ hist' = [hist EXCEPT ![p] = NewHist(schemaFile, manifestFile, capFile)]
    /\ prevRun' = IF pc[p] = "idle" THEN prevRun ELSE hist[p]
    /\ UNCHANGED <<appVars, files, now>>

\* line 64
LoadManifest(p) ==
    /\ pc[p] = "load_manifest"
    /\ CASE manifestFile.json = "absent"  -> Raise(p, "load_manifest", "FileNotFoundError")
         [] manifestFile.json = "invalid" -> Raise(p, "load_manifest", "JSONDecodeError")
         [] OTHER -> /\ loc' = [loc EXCEPT ![p].manifest = manifestFile]
                     /\ Goto(p, "load_manifest", "lookup")
    /\ UNCHANGED <<appVars, files, now, prevRun>>

\* next(m for m in modules if m["name"] == name): index of the first match, 0 if none
FirstMatch(modules) ==
    IF \E i \in 1 .. Len(modules) : modules[i].name = SCHEMA_NAME
    THEN CHOOSE i \in 1 .. Len(modules) :
            /\ modules[i].name = SCHEMA_NAME
            /\ \A j \in 1 .. (i - 1) : modules[j].name # SCHEMA_NAME
    ELSE 0

\* lines 65-66
Lookup(p) ==
    /\ pc[p] = "lookup"
    /\ LET m == loc[p].manifest IN
       IF m.json # "object" THEN Raise(p, "lookup", "TypeError")
       ELSE IF ~m.hasModules THEN Raise(p, "lookup", "KeyError")
       ELSE LET i == FirstMatch(m.modules) IN
            IF i = 0 THEN Raise(p, "lookup", "StopIteration")
            ELSE IF ~m.modules[i].hasSha THEN Raise(p, "lookup", "KeyError")
            ELSE IF Len(m.modules[i].sha256) < 2 THEN Raise(p, "lookup", "IndexError")
            ELSE /\ loc' = [loc EXCEPT ![p].canon_hash = m.modules[i].sha256[2]]
                 /\ Goto(p, "lookup", "hash")
    /\ UNCHANGED <<appVars, files, now, prevRun>>

\* line 67
HashLocal(p) ==
    /\ pc[p] = "hash"
    /\ IF schemaFile = Absent THEN Raise(p, "hash", "FileNotFoundError")
       ELSE /\ loc' = [loc EXCEPT ![p].local_hash = sha256_file(schemaFile)[2]]
            /\ Goto(p, "hash", "compare")
    /\ UNCHANGED <<appVars, files, now, prevRun>>

\* line 69 with a fetch on either outcome
Compare_fetch_on_match(p) ==
    /\ pc[p] = "compare"
    /\ IF loc[p].local_hash # loc[p].canon_hash
       THEN Goto(p, "mismatch", "fetch")
       ELSE Goto(p, "match", "fetch")
    /\ UNCHANGED <<appVars, files, now, prevRun, loc>>

\* line 69
Compare(p) ==
    /\ pc[p] = "compare"
    /\ IF loc[p].local_hash # loc[p].canon_hash
       THEN Goto(p, "mismatch", "fetch")
       ELSE Goto(p, "match", "load_schema")
    /\ UNCHANGED <<appVars, files, now, prevRun, loc>>

\* line 71 and fetch_secure: urlopen fails, or the bytes read are decoded
Fetch(p) ==
    /\ pc[p] = "fetch"
    /\ \E served \in Remote :
         /\ IF served = "unreachable" THEN /\ pc' = [pc EXCEPT ![p] = "finally"]
                                           /\ loc' = [loc EXCEPT ![p].verdict = Handler("URLError")]
            ELSE IF served \notin Utf8Contents
                 THEN /\ pc' = [pc EXCEPT ![p] = "finally"]
                      /\ loc' = [loc EXCEPT ![p].verdict = Handler("UnicodeDecodeError")]
            ELSE /\ pc' = [pc EXCEPT ![p] = "write_tmp"]
                 /\ loc' = [loc EXCEPT ![p].data = decode(served)]
         /\ hist' = [hist EXCEPT ![p] = [Event(p, "fetch") EXCEPT !.fetches = @ + 1, !.served = Append(@, served)]]
    /\ UNCHANGED <<appVars, files, now, prevRun>>

\* safe_atomic_write(SCHEMA_PATH, data), line 37: open(tmp, "w") creates the
\* temporary file or truncates the one that is there
OpenTmp(p) ==
    /\ pc[p] = "write_tmp"
    /\ schemaTmp' = Truncated
    /\ loc' = [loc EXCEPT ![p].fd = "tmp"]
    /\ Goto(p, "open_tmp", "write_data")
    /\ UNCHANGED <<appVars, manifestFile, schemaFile, capFile, logs, now, prevRun>>

\* safe_atomic_write(SCHEMA_PATH, data), line 37: f.write(data) and the close,
\* on the file the handle refers to
WriteTmp(p) ==
    /\ pc[p] = "write_data"
    /\ CASE loc[p].fd = "tmp"    -> schemaTmp' = encode(loc[p].data) /\ UNCHANGED schemaFile
         [] loc[p].fd = "schema" -> schemaFile' = encode(loc[p].data) /\ UNCHANGED schemaTmp
         [] OTHER                -> UNCHANGED <<schemaFile, schemaTmp>>
    /\ loc' = [loc EXCEPT ![p].fd = "closed"]
    /\ Goto(p, "write_tmp", "replace")
    /\ UNCHANGED <<appVars, manifestFile, capFile, logs, now, prevRun>>

\* line 38 with the temporary file dropped instead of renamed
Replace_keeps_old(p) ==
    /\ pc[p] = "replace"
    /\ schemaTmp' = Absent
    /\ hist' = [hist EXCEPT ![p] = [Event(p, "replace") EXCEPT !.rewrites = @ + 1]]
    /\ pc' = [pc EXCEPT ![p] = "rehash"]
    /\ UNCHANGED <<appVars, manifestFile, schemaFile, capFile, logs, now, prevRun, loc>>

\* safe_atomic_write(SCHEMA_PATH, data), line 38: os.replace(tmp, p)
Replace(p) ==
    /\ pc[p] = "replace"
    /\ IF schemaTmp = Absent
       THEN /\ Raise(p, "replace_failed", "FileNotFoundError")
            /\ UNCHANGED <<schemaFile, schemaTmp>>
       ELSE /\ schemaFile' = schemaTmp
            /\ schemaTmp' = Absent
            /\ hist' = [hist EXCEPT ![p] = [Event(p, "replace") EXCEPT !.rewrites = @ + 1]]
            /\ pc' = [pc EXCEPT ![p] = "rehash"]
            /\ loc' = [r \in Procs |->
                         CASE loc[r].fd = "tmp"    -> [loc[r] EXCEPT !.fd = "schema"]
                           [] loc[r].fd = "schema" -> [loc[r] EXCEPT !.fd = "orphan"]
                           [] OTHER                -> loc[r]]
    /\ UNCHANGED <<appVars, manifestFile, capFile, logs, now, prevRun>>

\* lines 74-76 with a second repair attempt instead of the raise
Rehash_retries(p) ==
    /\ pc[p] = "rehash"
    /\ LET h == sha256_file(schemaFile)[2] IN
         IF h # loc[p].canon_hash
         THEN /\ loc' = [loc EXCEPT ![p].local_hash = h]
              /\ Goto(p, "still_mismatch", "fetch")
         ELSE /\ loc' = [loc EXCEPT ![p].local_hash = h]
              /\ Goto(p, "rematch", "load_schema")
    /\ UNCHANGED <<appVars, files, now, prevRun>>

\* lines 74-76 with the original content put back before the raise
Rehash_restores(p) ==
    /\ pc[p] = "rehash"
    /\ LET h == sha256_file(schemaFile)[2] IN
         IF h # loc[p].canon_hash
         THEN /\ loc' = [loc EXCEPT ![p].local_hash = h, ![p].verdict = Handler("ValueError")]
              /\ hist' = [hist EXCEPT ![p] = Event(p, "still_mismatch")]
              /\ pc' = [pc EXCEPT ![p] = "finally"]
              /\ schemaFile' = hist[p].schema0
         ELSE /\ loc' = [loc EXCEPT ![p].local_hash = h]
              /\ Goto(p, "rematch", "load_schema")
              /\ UNCHANGED schemaFile
    /\ UNCHANGED <<appVars, manifestFile, schemaTmp, capFile, logs, now, prevRun>>

\* lines 74-76
Rehash(p) ==
    /\ pc[p] = "rehash"
    /\ IF schemaFile = Absent THEN Raise(p, "rehash", "FileNotFoundError")
       ELSE LET h == sha256_file(schemaFile)[2] IN
            IF h # loc[p].canon_hash
            THEN /\ loc' = [loc EXCEPT ![p].local_hash = h, ![p].verdict = Handler("ValueError")]
                 /\ hist' = [hist EXCEPT ![p] = Event(p, "still_mismatch")]
                 /\ pc' = [pc EXCEPT ![p] = "finally"]
            ELSE /\ loc' = [loc EXCEPT ![p].local_hash = h]
                 /\ Goto(p, "rematch", "load_schema")
    /\ UNCHANGED <<appVars, files, now, prevRun>>

\* line 78
LoadSchema(p) ==
    /\ pc[p] = "load_schema"
    /\ IF schemaFile = Absent THEN Raise(p, "load_schema", "FileNotFoundError")
       ELSE IF schemaFile \notin JsonContents THEN Raise(p, "load_schema", "JSONDecodeError")
       ELSE /\ loc' = [loc EXCEPT ![p].schema = schemaFile]
            /\ Goto(p, "load_schema", "load_cap")
    /\ UNCHANGED <<appVars, files, now, prevRun>>

\* line 79
LoadCap(p) ==
    /\ pc[p] = "load_cap"
    /\ IF capFile = Absent THEN Raise(p, "load_cap", "FileNotFoundError")
       ELSE IF capFile = "invalid_json" THEN Raise(p, "load_cap", "JSONDecodeError")
       ELSE /\ Goto(p, "load_cap", "validate")
            /\ UNCHANGED loc
    /\ UNCHANGED <<appVars, files, now, prevRun>>

\* lines 80-83
Validate(p) ==
    /\ pc[p] = "validate"
    /\ IF ~validate_cap(capFile, loc[p].schema) THEN Raise(p, "validate", "ValidationError")
       ELSE /\ loc' = [loc EXCEPT ![p].status = "PASS", ![p].verdict = "verified"]
            /\ Goto(p, "validate", "finally")
    /\ UNCHANGED <<appVars, files, now, prevRun>>

\* lines 95-101: the record; manifest.get raises when the manifest that was
\* loaded is no JSON object
Record(p) ==
    [runtime          |-> now,
     manifest_version |-> IF loc[p].manifest = UnboundManifest THEN "unknown"
                          ELSE IF loc[p].manifest.hasVersion THEN "3.5" ELSE "unknown",
     schema_hash      |-> IF loc[p].local_hash = Unbound THEN "N/A" ELSE loc[p].local_hash,
     verdict          |-> loc[p].verdict,
     status           |-> loc[p].status]

\* lines 94-102: finally, up to the write of the log file
Finally(p) ==
    /\ pc[p] = "finally"
    /\ IF loc[p].manifest.json \notin {"unbound", "object"}
       THEN /\ hist' = [hist EXCEPT ![p] = [Event(p, "AttributeError") EXCEPT !.exit = 1]]
            /\ pc' = [pc EXCEPT ![p] = "crashed"]
            /\ UNCHANGED logs
       ELSE /\ logs' = [logs EXCEPT ![loc[p].tstamp] = [exists |-> TRUE, mtime |-> now, record |-> Record(p)]]
            /\ hist' = [hist EXCEPT ![p] = [Event(p, "write_log") EXCEPT !.record = Record(p), !.log_path = loc[p].tstamp]]
            /\ pc' = [pc EXCEPT ![p] = "prune"]
    /\ UNCHANGED <<appVars, manifestFile, schemaFile, schemaTmp, capFile, now, prevRun, loc>>

Min(a, b) == IF a < b THEN a ELSE b

\* prune_logs(), line 41: ARCHIVE_DIR.glob("integrity_*.log")
PruneGlob(p) ==
    /\ pc[p] = "prune"
    /\ loc' = [loc EXCEPT ![p].listed = {t \in LogNames : logs[t].exists}]
    /\ pc' = [pc EXCEPT ![p] = "prune_sort"]
    /\ UNCHANGED <<appVars, files, now, prevRun, hist>>

\* prune_logs(), line 41: sorted(..., key=os.path.getmtime, reverse=True);
\* getmtime raises for a listed file that is no longer there, and the
\* exception leaves the finally block.  logs[LOG_RETAIN:] is what goes.
PruneSort(p) ==
    /\ pc[p] = "prune_sort"
    /\ IF \E t \in loc[p].listed : ~logs[t].exists
       THEN /\ hist' = [hist EXCEPT ![p] = [Event(p, "prune_failed") EXCEPT !.exit = 1]]
            /\ pc' = [pc EXCEPT ![p] = "crashed"]
            /\ UNCHANGED loc
       ELSE /\ \E keep \in SUBSET loc[p].listed :
                 /\ Cardinality(keep) = Min(LOG_RETAIN, Cardinality(loc[p].listed))
                 /\ \A k \in keep, d \in loc[p].listed \ keep : logs[k].mtime >= logs[d].mtime
                 /\ loc' = [loc EXCEPT ![p].old = loc[p].listed \ keep]
            /\ pc' = [pc EXCEPT ![p] = "prune_unlink"]
            /\ UNCHANGED hist
    /\ UNCHANGED <<appVars, files, now, prevRun>>

\* prune_logs(), line 42: old.unlink(missing_ok=True) for each of them
Prune(p) ==
    /\ pc[p] = "prune_unlink"
    /\ logs' = [t \in LogNames |-> IF t \in loc[p].old THEN NoFile ELSE logs[t]]
    /\ Goto(p, "prune", "exit")
    /\ UNCHANGED <<appVars, manifestFile, schemaFile, schemaTmp, capFile, now, prevRun, loc>>

\* line 105
Exit(p) ==
    /\ pc[p] = "exit"
    /\ hist' = [hist EXCEPT ![p] = [Event(p, "exit") EXCEPT !.exit = IF loc[p].status = "PASS" THEN 0 ELSE 1]]
    /\ pc' = [pc EXCEPT ![p] = "exited"]
    /\ UNCHANGED <<appVars, files, now, prevRun, loc>>

\* the clock
Tick ==
    /\ now < MaxTime
    /\ now' = now + 1
    /\ UNCHANGED <<appVars, files, pc, loc, hist, prevRun>>

\* ---------------------------------------------------------------------------
\* Specifications
\* ---------------------------------------------------------------------------
AppIdle ==
    /\ secret = "" /\ bridge_url = "" /\ CAP_SCHEMA = "permissive"
    /\ request = NoRequest /\ downstream = NoCall /\ steps = <<>>
    /\ response = [code |-> 0] /\ outbound = 0
    /\ uuid_calls = 0 /\ trace_id = 0 /\ response_trace_id = 0 /\ sent_trace_ids = {}

AuditIdle ==
    /\ manifestFile = ManifestAbsent /\ schemaFile = Absent /\ schemaTmp = Absent
    /\ capFile = Absent /\ logs = [t \in LogNames |-> NoFile] /\ now = 0
    /\ pc = [p \in Procs |-> "idle"] /\ loc = [p \in Procs |-> NewLoc(0)]
    /\ hist = [p \in Procs |-> NoRun] /\ prevRun = NoRun

Init == AppInit /\ AuditIdle
Next == ReceiveCap \/ Respond
Spec == Init /\ [][Next]_vars

AuditSeqInit == AuditInit /\ AppIdle
AuditNext ==
    \/ \E p \in SeqProcs : Start(p)
    \/ \E p \in SeqProcs : LoadManifest(p)
    \/ \E p \in SeqProcs : Lookup(p)
    \/ \E p \in SeqProcs : HashLocal(p)
    \/ \E p \in SeqProcs : Compare(p)
    \/ \E p \in SeqProcs : Fetch(p)
    \/ \E p \in SeqProcs : OpenTmp(p)
    \/ \E p \in SeqProcs : WriteTmp(p)
    \/ \E p \in SeqProcs : Replace(p)
    \/ \E p \in SeqProcs : Rehash(p)
    \/ \E p \in SeqProcs : LoadSchema(p)
    \/ \E p \in SeqProcs : LoadCap(p)
    \/ \E p \in SeqProcs : Validate(p)
    \/ \E p \in SeqProcs : Finally(p)
    \/ \E p \in SeqProcs : PruneGlob(p)
    \/ \E p \in SeqProcs : PruneSort(p)
    \/ \E p \in SeqProcs : Prune(p)
    \/ \E p \in SeqProcs : Exit(p)
    \/ Tick
AuditSpec == AuditSeqInit /\ [][AuditNext]_vars

\* Two invocations at the same time, each run once, in a deployment that has
\* run before: the manifest pins the canonical schema, the CAP record is
\* valid, and the archive holds the LOG_RETAIN records of earlier runs.
OldRecord(t) ==
    [runtime |-> t, manifest_version |-> "3.5", schema_hash |-> "ab12",
     verdict |-> "verified", status |-> "PASS"]

ConcInit ==
    /\ AppIdle
    /\ manifestFile = Manifest(TRUE, TRUE, <<Entry(SCHEMA_NAME, <<"SHA256", "ab12">>)>>)
    /\ schemaFile \in {"canon", "stale"}
    /\ schemaTmp = Absent
    /\ capFile = "valid"
    /\ logs = [t \in LogNames |-> IF t < 0 THEN [exists |-> TRUE, mtime |-> t, record |-> OldRecord(t)]
                                   ELSE NoFile]
    /\ now = 0
    /\ pc = [p \in Procs |-> "idle"]
    /\ loc = [p \in Procs |-> NewLoc(0)]
    /\ hist = [p \in Procs |-> NoRun]
    /\ prevRun = NoRun

ConcStart(p) == pc[p] = "idle" /\ Start(p)

ConcNext ==
    \/ \E p \in Procs : ConcStart(p)
    \/ \E p \in Procs : LoadManifest(p)
    \/ \E p \in Procs : Lookup(p)
    \/ \E p \in Procs : HashLocal(p)
    \/ \E p \in Procs : Compare(p)
    \/ \E p \in Procs : Fetch(p)
    \/ \E p \in Procs : OpenTmp(p)
    \/ \E p \in Procs : WriteTmp(p)
    \/ \E p \in Procs : Replace(p)
    \/ \E p \in Procs : Rehash(p)
    \/ \E p \in Procs : LoadSchema(p)
    \/ \E p \in Procs : LoadCap(p)
    \/ \E p \in Procs : Validate(p)
    \/ \E p \in Procs : Finally(p)
    \/ \E p \in Procs : PruneGlob(p)
    \/ \E p \in Procs : PruneSort(p)
    \/ \E p \in Procs : Prune(p)
    \/ \E p \in Procs : Exit(p)
    \/ Tick
ConcSpec == ConcInit /\ [][ConcNext]_vars
\* ---------------------------------------------------------------------------
\* Properties of POST /cap (Spec)
\* ---------------------------------------------------------------------------
Range(seq) == {seq[i] : i \in 1 .. Len(seq)}
Index(seq, x) == CHOOSE i \in 1 .. Len(seq) : seq[i] = x
Before(seq, x, y) == x \in Range(seq) /\ y \in Range(seq) /\ Index(seq, x) < Index(seq, y)

Handled  == steps # <<>>
Relayed  == "relay_cap_payload" \in Range(steps)
IsObject == request.body.json = "object"

SigOK    == verify_signature(secret, request.body, request.sig)
FieldsOK == IsObject /\ CAPPayload(request.body.data)
SchemaOK == FieldsOK /\ validate(request.body.data, CAP_SCHEMA)

Signed == secret # "" /\ request.sig = Hmac(secret, request.body)

\* one of the eight fields is missing, or one of the five strings is null
FailsRequired ==
    /\ IsObject
    /\ \/ \E f \in {"cap_id", "timestamp", "domain", "context_mode", "advisor_of_record"} :
             request.body.data[f] \in {"absent", "null"}
       \/ \E f \in {"outputs", "cap_extensions", "integrity"} : request.body.data[f] = "absent"

\* C2: a signature-verified record that fails the required-field check is
\* answered 400 before schema validation is attempted, and is never relayed.
C2_MalformedBeforeSchema ==
    (Handled /\ Signed /\ FailsRequired) =>
      /\ response.code = 400
      /\ "CAPPayload" \in Range(steps)
      /\ "validate" \notin Range(steps)
      /\ ~Relayed /\ outbound = 0

C2_Witness ==
    /\ Handled /\ Signed /\ FailsRequired
    /\ request.body.data["integrity"] = "absent"
    /\ CAP_SCHEMA = "permissive" /\ bridge_url # ""
    /\ response.code = 400

\* C3: no relay attempt for a record whose cap_id, timestamp, domain,
\* context_mode or advisor_of_record is absent or the empty string: it is
\* rejected with 400 before the relay step, whatever the schema says.
C3_NoRelayForEmptyScalar ==
    (Handled /\ Signed /\ IsObject
       /\ \E f \in {"cap_id", "timestamp", "domain", "context_mode", "advisor_of_record"} :
             request.body.data[f] \in {"absent", "empty"}) =>
      /\ response.code = 400
      /\ ~Relayed /\ outbound = 0

\* C4: verification fails closed: with an empty secret, or with the header
\* absent or empty, the request is answered 401 after the signature step
\* alone: never parsed, validated or relayed.
C4_FailClosed ==
    (Handled /\ (secret = "" \/ request.sig \in {NoHeader, EmptyHeader})) =>
      /\ response.code = 401
      /\ steps = <<"verify_signature">>
      /\ outbound = 0

C4_Witness ==
    /\ Handled /\ secret = ""
    /\ request.sig = Hmac("", request.body)
    /\ IsObject /\ Defects(request.body.data) = 0
    /\ response.code = 401

\* C5: a request that passed the three checks is answered 200 "CAP validated"
\* with the relay outcome embedded, whichever of the four outcomes it is.
C5_RelayFailureNotEscalated ==
    (Handled /\ Signed /\ FieldsOK /\ SchemaOK) =>
      /\ response.code = 200
      /\ response.body.status = "CAP validated"
      /\ response.body.relay_result.relay \in {"skipped", "success", "failed", "error"}
      /\ Relayed

C5_Witness ==
    /\ Handled /\ Signed /\ FieldsOK /\ SchemaOK
    /\ downstream.kind = "exception"
    /\ response.code = 200 /\ response.body.relay_result.relay = "error"

\* C6: the relay outcome follows a total rule: no endpoint gives skipped, a
\* 200 response gives success whatever its body, another status gives failed
\* with that status and body, a transport exception gives error.
C6_RelayClassification ==
    (Relayed /\ response.code = 200) =>
      LET r == response.body.relay_result IN
        /\ r.relay \in {"skipped", "success", "failed", "error"}
        /\ bridge_url = "" => r.relay = "skipped"
        /\ (bridge_url # "" /\ downstream.kind = "exception") => r.relay = "error"
        /\ (bridge_url # "" /\ downstream.kind = "response") =>
              IF downstream.status = 200 THEN r.relay = "success"
              ELSE r.relay = "failed" /\ r.code = downstream.status /\ r.body = downstream.json
\* ---------------------------------------------------------------------------
\* Properties of the integrity validator (AuditSpec)
\* ---------------------------------------------------------------------------
Ended(p) == pc[p] \in {"exited", "crashed"}
Did(h, e) == e \in Range(h.trace)
EndsWith(seq, tail) ==
    /\ Len(seq) >= Len(tail)
    /\ SubSeq(seq, Len(seq) - Len(tail) + 1, Len(seq)) = tail

\* C7: every run, whatever step of main() failed, reaches the final step,
\* writes its audit record, then prunes, then exits.
C7_AlwaysAuditRecord ==
    \A p \in SeqProcs :
      Ended(p) =>
        /\ hist[p].record # NoRecord
        /\ EndsWith(hist[p].trace, <<"write_log", "prune", "exit">>)
        /\ logs[loc[p].tstamp].exists

\* events of a run after the first occurrence of e
After(h, e) == SubSeq(h.trace, Index(h.trace, e) + 1, Len(h.trace))

\* C8: a run fetches at most once, and only after a hash mismatch; when the
\* digest after the rewrite still differs the run fails with status FAIL and
\* fetches and rewrites no more; a CAP schema violation triggers no fetch.
C8_SingleRepairAttempt ==
    \A p \in SeqProcs :
      /\ hist[p].fetches <= 1 /\ hist[p].rewrites <= 1
      /\ Did(hist[p], "fetch") => Before(hist[p].trace, "mismatch", "fetch")
      /\ Did(hist[p], "still_mismatch") =>
            /\ hist[p].fetches = 1 /\ hist[p].rewrites = 1
            /\ Range(After(hist[p], "still_mismatch")) \cap {"fetch", "open_tmp", "write_tmp", "replace"} = {}
            /\ loc[p].status = "FAIL"
            /\ pc[p] = "exited" => hist[p].record.status = "FAIL" /\ hist[p].exit = 1
      /\ Did(hist[p], "validate") =>
            Range(After(hist[p], "validate")) \cap {"fetch", "open_tmp", "write_tmp", "replace"} = {}

C8_Witness ==
    /\ pc[1] = "exited"
    /\ Did(hist[1], "still_mismatch")
    /\ hist[1].fetches = 1 /\ hist[1].rewrites = 1
    /\ hist[1].record.status = "FAIL"

\* the run found a digest different from the manifest's, and the canonical
\* source was reachable and served content with the manifest's digest
RepairableRun(h, canon_hash) ==
    /\ Did(h, "mismatch")
    /\ h.served # <<>>
    /\ h.served[1] \in Contents
    /\ hexdigest(h.served[1]) = canon_hash

TwoRunsOnMatch ==
    /\ pc[1] = "exited"
    /\ prevRun.exit # -1
    /\ Did(prevRun, "match")

FirstRunChangedNothing ==
    /\ hist[1].schema0 = prevRun.schema0
    /\ hist[1].manifest0 = prevRun.manifest0
    /\ hist[1].cap0 = prevRun.cap0

\* C10 as stated: two runs in immediate succession on a matching schema file
\* never fetch and both end with status PASS; the first run leaves the schema
\* file, the manifest and the CAP record unchanged.
C10_IdempotentPass ==
    TwoRunsOnMatch =>
      /\ prevRun.fetches = 0 /\ hist[1].fetches = 0
      /\ prevRun.record.status = "PASS" /\ hist[1].record.status = "PASS"
      /\ FirstRunChangedNothing

\* C10 as amended: two runs in immediate succession on a matching schema file
\* never fetch, the first leaves the three files unchanged, and both end with
\* the same status: PASS when the schema file and the CAP record file are
\* readable JSON and the record validates against the schema, FAIL otherwise.
C10_IdempotentSameStatus ==
    TwoRunsOnMatch =>
      /\ prevRun.fetches = 0 /\ hist[1].fetches = 0
      /\ FirstRunChangedNothing
      /\ schemaFile = prevRun.schema0
      /\ prevRun.record.status = hist[1].record.status
      /\ hist[1].record.status =
            IF /\ schemaFile \in JsonContents
               /\ capFile \in {"valid", "violating"}
               /\ validate_cap(capFile, schemaFile)
            THEN "PASS" ELSE "FAIL"
      /\ prevRun.exit = hist[1].exit

C10_Witness ==
    /\ TwoRunsOnMatch
    /\ prevRun.record.status = "PASS" /\ hist[1].record.status = "PASS"
    /\ hist[1].fetches = 0
LogFiles == {t \in DOMAIN logs : logs[t].exists}

\* the run before the last and the last run both reached their end
TwoRuns == Ended(1) /\ prevRun.trace # <<>>

\* C11 (fewer than LOG_RETAIN runs): each run creates its own audit log file,
\* so after two sequential runs the directory holds one file per run, each
\* with the record of its run.
C11_OneLogPerRun ==
    (TwoRuns /\ prevRun.record # NoRecord /\ hist[1].record # NoRecord) =>
      /\ prevRun.log_path # hist[1].log_path
      /\ Cardinality(LogFiles) >= 2
      /\ logs[prevRun.log_path].exists /\ logs[prevRun.log_path].record = prevRun.record
      /\ logs[hist[1].log_path].exists /\ logs[hist[1].log_path].record = hist[1].record

\* C15: a run exits with status 0 exactly when the audit record it wrote has
\* status PASS and with status 1 otherwise, and only after the record was
\* written and the prune pass has run.
C15_ExitReflectsRecord ==
    \A p \in SeqProcs :
      Ended(p) =>
        /\ hist[p].exit = (IF hist[p].record # NoRecord /\ hist[p].record.status = "PASS" THEN 0 ELSE 1)
        /\ Before(hist[p].trace, "write_log", "prune")
        /\ Before(hist[p].trace, "prune", "exit")

\* hex digits in lower case
Lower(h) == IF h = "AB12" THEN "ab12" ELSE h

\* C17: the comparison ignores the case of the hex digits: a manifest digest
\* that differs from the computed one only in letter case is a match, and
\* the run fetches nothing.
C17_CaseInsensitiveCompare ==
    \A p \in SeqProcs :
      (Did(hist[p], "hash") /\ pc[p] \notin {"compare", "finally"}
         /\ loc[p].local_hash # Unbound
         /\ Lower(loc[p].canon_hash) = Lower(hexdigest(hist[p].schema0))) =>
        /\ Did(hist[p], "match")
        /\ hist[p].fetches = 0

\* C18: values a failed run never computed are written as sentinels and the
\* final step writes the record for every content of the manifest file.
C18_SentinelsNeverCrash ==
    \A p \in SeqProcs :
      Ended(p) =>
        /\ pc[p] = "exited"
        /\ hist[p].record # NoRecord
        /\ ~Did(hist[p], "lookup") => hist[p].record.manifest_version = "unknown"
        /\ loc[p].local_hash = Unbound => hist[p].record.schema_hash = "N/A"

\* C19: a record with status PASS comes only from a run whose last computed
\* digest equalled the manifest's and whose CAP record validated; every run
\* that ends another way writes a record with status FAIL.
C19_PassOnlyWhenVerified ==
    \A p \in SeqProcs :
      Ended(p) =>
        LET verified == /\ loc[p].local_hash # Unbound
                        /\ loc[p].local_hash = loc[p].canon_hash
                        /\ hexdigest(schemaFile) = loc[p].canon_hash
                        /\ schemaFile \in JsonContents
                        /\ capFile \in {"valid", "violating"}
                        /\ validate_cap(capFile, schemaFile)
        IN  /\ hist[p].record # NoRecord
            /\ hist[p].record.status = (IF verified THEN "PASS" ELSE "FAIL")

\* the fetch of the run returned the served text
FetchCompleted(h) == h.served # <<>> /\ h.served[1] \in Utf8Contents

\* C20: a run that found a mismatch and completed the fetch leaves the
\* fetched content in the schema file whether or not its digest matches (on
\* a second mismatch the original is not restored and the record carries the
\* digest of the fetched content); a run that found a match, or whose fetch
\* failed, leaves the schema file as it was.
C20_RepairOverwritesUnverified ==
    \A p \in SeqProcs :
      Ended(p) =>
        /\ (Did(hist[p], "mismatch") /\ FetchCompleted(hist[p])) =>
              /\ schemaFile = hist[p].served[1]
              /\ Did(hist[p], "still_mismatch") =>
                    /\ hist[p].record.schema_hash = hexdigest(hist[p].served[1])
                    /\ hist[p].record.status = "FAIL"
        /\ (Did(hist[p], "match") \/ ~FetchCompleted(hist[p])) =>
              schemaFile = hist[p].schema0

C20_Witness ==
    /\ pc[1] = "exited"
    /\ Did(hist[1], "still_mismatch")
    /\ hist[1].schema0 = "canon" /\ schemaFile = "stale"
    /\ hist[1].record.schema_hash = "cd34"
\* ---------------------------------------------------------------------------
\* Further properties of POST /cap (Spec)
\* ---------------------------------------------------------------------------

\* C14: a request gets one correlation id; its response, 200 or error,
\* carries that id, and no id is in the responses of two requests.
C14_OneTraceIdPerRequest ==
    Handled =>
      /\ response_trace_id = trace_id
      /\ response_trace_id \notin sent_trace_ids

\* C16: the dispatcher makes exactly one outbound POST when an endpoint is
\* configured, whatever the bridge answers, and none without an endpoint; so
\* a request causes at most one outbound call.
C16_SingleOutboundCall ==
    Handled =>
      /\ outbound <= 1
      /\ (Relayed /\ bridge_url # "") => outbound = 1
      /\ (~Relayed \/ bridge_url = "") => outbound = 0

C16_Witness ==
    /\ Relayed /\ bridge_url # ""
    /\ downstream.kind = "response" /\ downstream.status = 500
    /\ response.body.relay_result.relay = "failed"
    /\ outbound = 1
\* ---------------------------------------------------------------------------
\* Properties of concurrent runs of the validator (ConcSpec)
\* ---------------------------------------------------------------------------

\* C12: while one or two runs repair the schema, the file under the schema
\* path is at every moment complete, the old content or content some run
\* fetched, never a partially written file, and no run fails because of the
\* other one.
C12_AtomicReplacement ==
    /\ schemaFile \in Contents
    /\ schemaFile \in {hist[p].schema0 : p \in Procs} \cup UNION {Range(hist[p].served) : p \in Procs}
           \/ \A p \in Procs : pc[p] = "idle"
    /\ \A p \in Procs : ~Did(hist[p], "replace_failed")

\* C13: when two runs prune at the same time and one removes a file the other
\* has listed, the other's prune pass completes without error and the run
\* exits with the status of its own record, 0 for PASS and 1 for FAIL.
C13_PruneToleratesPruner ==
    \A p \in Procs :
      /\ ~Did(hist[p], "prune_failed")
      /\ (Ended(p) /\ hist[p].record # NoRecord) =>
            /\ pc[p] = "exited"
            /\ hist[p].exit = (IF hist[p].record.status = "PASS" THEN 0 ELSE 1)
====
